---- MODULE Spec2Model ----
(***************************************************************************)
(* The SSD detector of gluonvision/model_zoo/ssd/ssd.py.                   *)
(*                                                                         *)
(* Three specifications over one set of variables:                         *)
(*   SpecCtor  SSD.__init__, get_ssd, the six presets and set_nms          *)
(*   SpecFwd   SpecCtor and SSD.hybrid_forward on the object constructed   *)
(*   SpecTgt   anchor/ground-truth matching of the target generator        *)
(*                                                                         *)
(* Number conventions.  Aspect ratios are held in sixths (1 -> 6, 2 -> 12, *)
(* 0.5 -> 3, 3 -> 18, 1/3 -> 2); sizes of the presets in hundredths of a   *)
(* pixel; NMS thresholds in hundredths; probabilities as exact fractions   *)
(* <<numerator, denominator>>; logits in units of ln 2, so that            *)
(* exp(logit) = 2^k is exact.                                              *)
(***************************************************************************)
EXTENDS Integers, Sequences, FiniteSets, TLC

VARIABLES
    args,      \* arguments of the last SSD(...) call, or NoArgs
    ssd,       \* the SSD object: what SSD(...) returned (NoSSD after a raise)
    err,       \* how the last SSD(...) call ended: "none" or the exception raised
    ratios_l,  \* the local `ratios` of __init__ when the call ended (after line 100)
    x,         \* the input of the last hybrid_forward call (backbone + predictor outputs)
    out,       \* what the last hybrid_forward call returned
    masked,    \* `result` of hybrid_forward after line 195 (before the NMS branch)
    lastNms,   \* the arguments of the most recent nms configuration (constructor or set_nms)
    tgt        \* the state of one target-generation (matching) run

vars == <<args, ssd, err, ratios_l, x, out, masked, lastNms, tgt>>

NoArgs == [kind |-> "none"]
NoSSD  == [kind |-> "none"]
NoX    == [kind |-> "none"]
NoOut  == [kind |-> "none"]
NoNms  == [kind |-> "none"]
NoTgt  == [kind |-> "none"]

Min2(a, b) == IF a <= b THEN a ELSE b

RECURSIVE SumSeq(_)
SumSeq(s) == IF s = <<>> THEN 0 ELSE Head(s) + SumSeq(Tail(s))

RECURSIVE Pow2(_)
Pow2(k) == IF k <= 0 THEN 1 ELSE 2 * Pow2(k - 1)

(***************************************************************************)
(* Python values.  A ratio argument is a list or a tuple (isList) of       *)
(* elements; an element is a list of ratios (isList) or a bare number,     *)
(* held as a one-item sequence.                                            *)
(***************************************************************************)
Scalar(r)   == [isList |-> FALSE, items |-> <<r>>]
RList(s)    == [isList |-> TRUE, items |-> s]
PyList(s)   == [elems |-> s, isList |-> TRUE]
PyTuple(s)  == [elems |-> s, isList |-> FALSE]

\* seq * n of Python: n copies of seq, concatenated (empty for n <= 0)
RECURSIVE PyRepeat(_, _)
PyRepeat(s, n) == IF n <= 0 THEN <<>> ELSE s \o PyRepeat(s, n - 1)

\* list(zip(sizes[:-1], sizes[1:]))
ZipPairs(sizes) ==
    IF Len(sizes) < 2 THEN <<>>
    ELSE [i \in 1..(Len(sizes) - 1) |-> <<sizes[i], sizes[i + 1]>>]

(***************************************************************************)
(* SSD.__init__                                                            *)
(***************************************************************************)
DefaultNmsThresh == 0
DefaultNmsTopk == -1
DefaultForceNms == FALSE
DefaultAnchorAllocSize == 128

\* the nms_thresh / nms_topk / force_nms parameters as bound by a call that
\* may leave them out (nms_given = FALSE)
NmsParams(a) ==
    IF a.nms_given
    THEN [force_nms |-> a.force_nms, nms_thresh |-> a.nms_thresh, nms_topk |-> a.nms_topk]
    ELSE [force_nms |-> DefaultForceNms, nms_thresh |-> DefaultNmsThresh,
          nms_topk |-> DefaultNmsTopk]

\* lines 86-89
NumLayers(a) ==
    IF a.network = "None"
    THEN Len(a.ratios.elems)
    ELSE Len(a.features) + Len(a.num_filters) + (IF a.global_pool THEN 1 ELSE 0)

\* line 96
CheckSizes(sizes, num_layers) == Len(sizes) = num_layers + 1

\* lines 99-100: a flat list is repeated num_layers times
PropagateRatios(elems, num_layers) ==
    IF ~ elems[1].isList THEN PyRepeat(elems, num_layers) ELSE elems

\* lines 101-103
CheckMatch(num_layers, sizes, elems) ==
    num_layers = Len(sizes) /\ Len(sizes) = Len(elems)

\* line 104
CheckNumLayers_Dropped(num_layers) == TRUE
CheckNumLayers(num_layers) == num_layers > 0

\* SSDAnchorGenerator(i, im_size, s, r, st, asz).num_depth: anchors per cell
NumDepth(r) == 2 + 2 * (Len(r.items) - 1)

\* line 130: the generator of scale i
SSDAnchorGenerator(i, im_size, s, r, st, asz) ==
    [alloc_size |-> asz, im_size |-> im_size, index |-> i, num_depth |-> NumDepth(r),
     ratios |-> r, sizes |-> s, step |-> st]

\* lines 132-134: the two predictors of a scale, by their output channel counts
ClassPredictorChannels(num_anchors, num_classes) == num_anchors * num_classes
BoxPredictorChannels(num_anchors) == num_anchors * 4

\* line 131: asz // 2, asz being the tuple of line 127; Python defines no
\* floor division of a tuple by an int and raises TypeError
AszHalve(asz) ==
    IF asz.isTuple THEN [err |-> "TypeError:131", val |-> asz]
    ELSE [err |-> "none", val |-> [isTuple |-> FALSE, v |-> asz.v \div 2]]

\* lines 129-134: one pass of the loop per element of zip(range, sizes, ratios, steps)
RECURSIVE InitLoop(_, _, _, _, _, _, _)
InitLoop(i, n, im_size, sizes, elems, steps, st) ==
    IF i > n THEN st
    ELSE
      LET g    == SSDAnchorGenerator(i - 1, im_size, sizes[i], elems[i], steps[i], st.asz)
          st1  == [st EXCEPT !.gens = Append(@, g)]
          half == AszHalve(st.asz)
      IN IF half.err # "none" THEN [st1 EXCEPT !.err = half.err]
         ELSE InitLoop(i + 1, n, im_size, sizes, elems, steps,
                [st1 EXCEPT
                   !.asz = half.val,
                   !.cls = Append(@, ClassPredictorChannels(g.num_depth, st.num_classes)),
                   !.box = Append(@, BoxPredictorChannels(g.num_depth))])

Raise(e, elems) == [err |-> e, ratios_l |-> elems, ssd |-> NoSSD]

\* SSD.__init__, lines 85-136: the outcome of SSD(**a)
SSDInit(a) ==
    LET num_layers == NumLayers(a)
        nms        == NmsParams(a)
    IN
    IF ~ CheckSizes(a.sizes, num_layers) THEN Raise("AssertionError:96", a.ratios.elems)
    ELSE LET sizes == ZipPairs(a.sizes) IN
    IF ~ a.ratios.isList THEN Raise("AssertionError:98", a.ratios.elems)
    ELSE IF Len(a.ratios.elems) = 0 THEN Raise("IndexError:99", a.ratios.elems)
    ELSE LET elems == PropagateRatios(a.ratios.elems, num_layers) IN
    IF ~ CheckMatch(num_layers, sizes, elems) THEN Raise("AssertionError:101", elems)
    ELSE IF ~ CheckNumLayers(num_layers) THEN Raise("AssertionError:104", elems)
    ELSE
      LET n  == Min2(Min2(num_layers, Len(sizes)), Min2(Len(elems), Len(a.steps)))
          st == InitLoop(1, n, <<a.base_size, a.base_size>>, sizes, elems, a.steps,
                    [asz |-> [isTuple |-> TRUE,
                              v |-> <<a.anchor_alloc_size, a.anchor_alloc_size>>],
                     box |-> <<>>, cls |-> <<>>, err |-> "none", gens |-> <<>>,
                     num_classes |-> a.classes + 1])
      IN IF st.err # "none" THEN Raise(st.err, elems)
         ELSE [err |-> "none", ratios_l |-> elems,
               ssd |-> [anchor_generators |-> st.gens,
                        box_predictors |-> st.box,
                        class_predictors |-> st.cls,
                        force_nms |-> nms.force_nms,
                        kind |-> "ssd",
                        nms_thresh |-> nms.nms_thresh,
                        nms_topk |-> nms.nms_topk,
                        num_classes |-> a.classes + 1,
                        num_layers |-> num_layers]]

\* get_ssd, lines 216-217
GetSsd(name, bs, feats, filters, szs, rts, stps) ==
    [anchor_alloc_size |-> DefaultAnchorAllocSize, base_size |-> bs, classes |-> 20,
     features |-> feats, force_nms |-> FALSE, global_pool |-> FALSE, kind |-> "call",
     network |-> name, nms_given |-> FALSE, nms_thresh |-> 0, nms_topk |-> 0,
     num_filters |-> filters, preset |-> "", ratios |-> rts, sizes |-> szs,
     steps |-> stps]

R3 == RList(<<6, 12, 3>>)
R5 == RList(<<6, 12, 3, 18, 2>>)
Sizes300 == <<3000, 6000, 11100, 16200, 21300, 26400, 31500>>
Sizes512 == <<3584, 7680, 15360, 23040, 30720, 38400, 46080, 53760>>
Filters4 == <<512, 512, 256, 256>>

\* lines 224-280: the six presets, as the SSD(...) call each one makes
Preset(p) ==
    LET c ==
      CASE p = "ssd_300_vgg16_atrous" ->
             GetSsd("None", 300, <<>>, <<>>, Sizes300,
                    PyList(<<R3>> \o PyRepeat(<<R5>>, 3) \o PyRepeat(<<R3>>, 2)),
                    <<8, 16, 32, 64, 100, 300>>)
        [] p = "ssd_512_vgg16_atrous" ->
             GetSsd("None", 512, <<>>, <<>>, Sizes512,
                    PyList(<<R3>> \o PyRepeat(<<R5>>, 4) \o PyRepeat(<<R3>>, 2)),
                    <<8, 16, 32, 64, 128, 256, 512>>)
        [] p = "ssd_512_resnet18_v1" ->
             GetSsd("resnet18_v1", 512, <<"stage3_activation1", "stage4_activation1">>,
                    Filters4, Sizes512,
                    PyList(<<R3>> \o PyRepeat(<<R5>>, 3) \o PyRepeat(<<R3>>, 2)),
                    <<8, 16, 32, 64, 128, 256, 512>>)
        [] p = "ssd_512_resnet50_v1" ->
             GetSsd("resnet50_v1", 512, <<"stage3_activation5", "stage4_activation2">>,
                    Filters4, Sizes512,
                    PyList(<<R3>> \o PyRepeat(<<R5>>, 3) \o PyRepeat(<<R3>>, 2)),
                    <<16, 32, 64, 128, 256, 512>>)
        [] p = "ssd_512_resnet101_v2" ->
             GetSsd("resnet101_v2", 512, <<"stage3_activation22", "stage4_activation2">>,
                    Filters4, Sizes512,
                    PyList(<<R3>> \o PyRepeat(<<R5>>, 3) \o PyRepeat(<<R3>>, 2)),
                    <<16, 32, 64, 128, 256, 512>>)
        [] p = "ssd_512_resnet152_v2" ->
             GetSsd("resnet152_v2", 512,
                    <<"stage2_activation7", "stage3_activation35", "stage4_activation2">>,
                    Filters4, Sizes512,
                    PyList(<<R3>> \o PyRepeat(<<R5>>, 4) \o PyRepeat(<<R3>>, 2)),
                    <<8, 16, 32, 64, 128, 256, 512>>)
    IN [c EXCEPT !.preset = p]

Presets == {"ssd_300_vgg16_atrous", "ssd_512_vgg16_atrous", "ssd_512_resnet18_v1",
            "ssd_512_resnet50_v1", "ssd_512_resnet101_v2", "ssd_512_resnet152_v2"}

\* SSD.set_nms, lines 138-141
SetNmsOn(obj, nms_thresh, nms_topk, force_nms) ==
    [obj EXCEPT !.nms_thresh = nms_thresh, !.nms_topk = nms_topk, !.force_nms = force_nms]

(***************************************************************************)
(* SSD.hybrid_forward.  A predictor output of one image is a tensor        *)
(* t[c][h][w] (channel, row, column); a feature map is its size [h, w].    *)
(***************************************************************************)
\* F.flatten(F.transpose(t, (0, 2, 3, 1))), lines 151 and 153
FlattenNHWC(t) ==
    LET C == Len(t)
        H == Len(t[1])
        W == Len(t[1][1])
    IN [j \in 1..(H * W * C) |->
          t[((j - 1) % C) + 1][((j - 1) \div (C * W)) + 1][(((j - 1) \div C) % W) + 1]]

\* F.concat(*parts, dim=1) of at least one array
RECURSIVE Concat(_)
Concat(parts) == IF parts = <<>> THEN <<>> ELSE Head(parts) \o Concat(Tail(parts))

\* .reshape((0, -1, n)): consecutive groups of n
Reshape(flat, n) ==
    [k \in 1..(Len(flat) \div n) |-> SubSeq(flat, (k - 1) * n + 1, k * n)]

\* coordinates are integers counting 1/(CoordUnit * im_size) of the image side
CoordUnit == 4

ISqrt(n) == CHOOSE r \in 0..n : r * r = n

\* the <<w, h>> of the anchors of one cell, in generation order: the
\* sqrt(min*max) square, the min square, then each ratio other than 1 with its
\* reciprocal
AnchorShapes(gen) ==
    LET mn == gen.sizes[1] * CoordUnit
        mx == gen.sizes[2] * CoordUnit
        rs == SelectSeq(gen.ratios.items, LAMBDA r : r # 6)
        pair(r) == LET q == ISqrt(r \div 6) IN << <<mn * q, mn \div q>>, <<mn \div q, mn * q>> >>
    IN << <<ISqrt(mn * mx), ISqrt(mn * mx)>>, <<mn, mn>> >>
       \o Concat([i \in 1..Len(rs) |-> pair(rs[i])])

\* the anchor <<cx, cy, w, h>> of slot a (from 1) of cell (row, col) (from 0)
AnchorAt(gen, row, col, a) ==
    LET sh == AnchorShapes(gen)[a]
    IN << ((2 * col + 1) * gen.step * CoordUnit) \div 2,
          ((2 * row + 1) * gen.step * CoordUnit) \div 2, sh[1], sh[2] >>

\* SSDAnchorGenerator.forward on an H x W feature map: the anchors of the
\* top-left H x W cells, row-major over (row, col, slot)
AnchorForward(gen, feat) ==
    LET A == gen.num_depth
    IN [k \in 1..(feat.h * feat.w * A) |->
          AnchorAt(gen, (k - 1) \div (feat.w * A), ((k - 1) \div A) % feat.w,
                   ((k - 1) % A) + 1)]

\* lines 151-156: the three lists of per-scale flat arrays, each as long as
\* the shorter of `features` and the detector's predictors / generators
PerScale(self, inp) ==
    [anchors   |-> [i \in 1..Min2(Len(inp.feat), Len(self.anchor_generators)) |->
                      Concat(AnchorForward(self.anchor_generators[i], inp.feat[i]))],
     box_preds |-> [i \in 1..Min2(Len(inp.feat), Len(self.box_predictors)) |->
                      FlattenNHWC(inp.box[i])],
     cls_preds |-> [i \in 1..Min2(Len(inp.feat), Len(self.class_predictors)) |->
                      FlattenNHWC(inp.cls[i])]]

\* lines 157-159: F.concat of an empty list of arrays raises (the operator
\* takes at least one input); the first of the three lines to meet one ends
\* the call
ConcatError(ps) ==
    IF ps.cls_preds = <<>> THEN "MXNetError:157"
    ELSE IF ps.box_preds = <<>> THEN "MXNetError:158"
    ELSE IF ps.anchors = <<>> THEN "MXNetError:159"
    ELSE "none"

\* lines 150-159: the three aggregated sequences
Aggregate(self, inp) ==
    LET ps == PerScale(self, inp)
    IN [anchors   |-> Reshape(Concat(ps.anchors), 4),
        box_preds |-> Reshape(Concat(ps.box_preds), 4),
        cls_preds |-> Reshape(Concat(ps.cls_preds), self.num_classes)]

\* stds[0], stds[1] of line 83, in hundredths
StdXY == 10

\* NormalizedBoxCenterDecoder(stds)(box_pred, anchor): corner-form box.  The two
\* size offsets are held as k, standing for k * ln 2 / stds[2], so that
\* exp(offset * stds[2]) = 2^k.
BBoxDecoder(off, a) ==
    LET cx == a[1] + (off[1] * StdXY * a[3]) \div 100
        cy == a[2] + (off[2] * StdXY * a[4]) \div 100
        w  == a[3] * Pow2(off[3])
        h  == a[4] * Pow2(off[4])
    IN <<cx - w \div 2, cy - h \div 2, cx + w \div 2, cy + h \div 2>>

\* fractions <<numerator, denominator>>, denominator > 0
FracGt(p, q) == p[1] * q[2] > q[1] * p[2]
MinusOne == <<-1, 1>>

\* F.softmax over the class axis; a logit k stands for k * ln 2
Softmax(v) ==
    LET den == SumSeq([i \in 1..Len(v) |-> Pow2(v[i])])
    IN [i \in 1..Len(v) |-> <<Pow2(v[i]), den>>]

\* MultiClassDecoder: the best foreground entry (lowest index on ties), its
\* id counted from 0, and its probability
ClsDecoder(p) ==
    LET best == CHOOSE i \in 2..Len(p) :
                  /\ \A j \in 2..Len(p) : ~ FracGt(p[j], p[i])
                  /\ \A j \in 2..(i - 1) : FracGt(p[i], p[j])
    IN [id |-> best - 2, score |-> p[best]]

\* line 194: scores > 0.01
ConfThreshDen == 100
ConfMask(score) == FracGt(score, <<1, ConfThreshDen>>)

\* lines 192-195: one row of `result`, all six columns -1 where the mask is off
MaskedRow(id, score, bbox) ==
    IF ConfMask(score) THEN [bbox |-> bbox, id |-> id, score |-> score]
    ELSE [bbox |-> <<-1, -1, -1, -1>>, id |-> -1, score |-> MinusOne]

InvalidRow == [bbox |-> <<-1, -1, -1, -1>>, id |-> -1, score |-> MinusOne]

\* intersection and union areas of two corner-form boxes
Max2(a, b) == IF a >= b THEN a ELSE b
Area(b) == Max2(b[3] - b[1], 0) * Max2(b[4] - b[2], 0)
Inter(b1, b2) ==
    Max2(Min2(b1[3], b2[3]) - Max2(b1[1], b2[1]), 0)
    * Max2(Min2(b1[4], b2[4]) - Max2(b1[2], b2[2]), 0)
\* IoU(b1, b2) >= thresh/100
IoUAtLeast(b1, b2, thresh) ==
    LET i == Inter(b1, b2)
        u == Area(b1) + Area(b2) - i
    IN IF u = 0 THEN 0 >= thresh ELSE 100 * i >= thresh * u

\* candidates by score, highest first (lowest index first on ties)
RECURSIVE ByScore(_, _)
ByScore(rows, S) ==
    IF S = {} THEN <<>>
    ELSE LET top == CHOOSE i \in S : \A j \in S \ {i} :
                       \/ FracGt(rows[i].score, rows[j].score)
                       \/ (~ FracGt(rows[j].score, rows[i].score) /\ i < j)
         IN <<top>> \o ByScore(rows, S \ {top})

RECURSIVE Greedy(_, _, _, _, _)
Greedy(rows, order, kept, thresh, force) ==
    IF order = <<>> THEN kept
    ELSE LET i  == Head(order)
             ok == \A j \in kept :
                     (force \/ rows[j].id = rows[i].id)
                        => ~ IoUAtLeast(rows[i].bbox, rows[j].bbox, thresh)
         IN Greedy(rows, Tail(order), IF ok THEN kept \cup {i} ELSE kept, thresh, force)

\* F.contrib.box_nms(result, overlap_thresh, topk, id_index=0, score_index=1,
\* coord_start=2, force_suppress): greedy suppression, every slot kept in place
\* and set to -1 when invalid, beyond topk, or suppressed
BoxNms(rows, thresh, topk, force) ==
    LET cand  == {i \in 1..Len(rows) : rows[i].id # -1}
        order == ByScore(rows, cand)
        exam  == IF topk > 0 /\ topk < Len(order) THEN SubSeq(order, 1, topk) ELSE order
        kept  == Greedy(rows, exam, {}, thresh, force)
    IN [i \in 1..Len(rows) |-> IF i \in kept THEN rows[i] ELSE InvalidRow]

\* line 196
NmsEnabled(thresh) == thresh > 0 /\ thresh < 100

\* lines 162-195: `result` before the NMS branch
MaskedResult(self, agg) ==
    [k \in 1..Len(agg.cls_preds) |->
       LET d == ClsDecoder(Softmax(agg.cls_preds[k]))
       IN MaskedRow(d.id, d.score, BBoxDecoder(agg.box_preds[k], agg.anchors[k]))]

\* lines 196-199
NmsBranch(self, rows) ==
    IF NmsEnabled(self.nms_thresh)
    THEN BoxNms(rows, self.nms_thresh, self.nms_topk, self.force_nms)
    ELSE rows

\* SSD.hybrid_forward, lines 148-203
HybridForward(self, inp) ==
    LET agg == Aggregate(self, inp)
        e   == ConcatError(PerScale(self, inp))
    IN IF e # "none" THEN [err |-> e, kind |-> "raise"]
       ELSE IF inp.recording
       THEN [anchors |-> agg.anchors, box_preds |-> agg.box_preds,
             cls_preds |-> agg.cls_preds, kind |-> "train"]
       ELSE LET result == NmsBranch(self, MaskedResult(self, agg))
            IN [bboxes |-> [k \in 1..Len(result) |-> result[k].bbox],
                ids |-> [k \in 1..Len(result) |-> result[k].id],
                kind |-> "infer",
                scores |-> [k \in 1..Len(result) |-> result[k].score]]

(***************************************************************************)
(* SpecCtor: SSD(...) calls, preset calls and set_nms on the object made   *)
(***************************************************************************)
MaxFeatures == 2
MaxFilters == 2
MaxSizes == 4
MaxRatioLists == 3
MaxSteps == 3

SeqOfLen(n, v) == [i \in 1..n |-> v * i]
NamesOfLen(n) == [i \in 1..n |-> "stage"]

FlatRatios == {<<Scalar(6)>>, <<Scalar(6), Scalar(12), Scalar(3)>>}
NestedRatios ==
    {PyRepeat(<<r>>, n) : r \in {RList(<<6>>), R3}, n \in 0..MaxRatioLists}
RatioArgs ==
    {PyList(e) : e \in FlatRatios \cup NestedRatios} \cup {PyTuple(<<R3>>)}

\* (nms_thresh, nms_topk, force_nms) argument triples of set_nms calls
NmsConfigs ==
    {<<0, -1, FALSE>>, <<45, -1, FALSE>>, <<20, 1, FALSE>>, <<20, -1, TRUE>>,
     <<100, -1, TRUE>>, <<110, 2, FALSE>>, <<-100, -1, TRUE>>}

CtorNms ==
    {[force_nms |-> FALSE, nms_given |-> FALSE, nms_thresh |-> 0, nms_topk |-> 0],
     [force_nms |-> FALSE, nms_given |-> TRUE, nms_thresh |-> 45, nms_topk |-> -1],
     [force_nms |-> TRUE, nms_given |-> TRUE, nms_thresh |-> 20, nms_topk |-> 2]}

Backbones ==
    {[features |-> <<>>, global_pool |-> FALSE, network |-> "None", num_filters |-> <<>>]}
    \cup
    {[features |-> NamesOfLen(nf), global_pool |-> gp, network |-> "resnet18_v1",
      num_filters |-> SeqOfLen(nl, 128)] :
        nf \in 0..MaxFeatures, nl \in 0..MaxFilters, gp \in BOOLEAN}

CtorCall(b, szs, rts, stps, nms) ==
    [anchor_alloc_size |-> DefaultAnchorAllocSize, base_size |-> 300, classes |-> 2,
     features |-> b.features, force_nms |-> nms.force_nms,
     global_pool |-> b.global_pool, kind |-> "call", network |-> b.network,
     nms_given |-> nms.nms_given, nms_thresh |-> nms.nms_thresh,
     nms_topk |-> nms.nms_topk, num_filters |-> b.num_filters, preset |-> "",
     ratios |-> rts, sizes |-> szs, steps |-> stps]

InitNms(a) ==
    LET n == NmsParams(a)
    IN [force_nms |-> n.force_nms, kind |-> "init", nms_thresh |-> n.nms_thresh,
        nms_topk |-> n.nms_topk]

DoConstruct(a) ==
    LET r == SSDInit(a)
    IN /\ args' = a
       /\ ssd' = r.ssd
       /\ err' = r.err
       /\ ratios_l' = r.ratios_l
       /\ lastNms' = IF r.err = "none" THEN InitNms(a) ELSE NoNms
       /\ UNCHANGED <<x, out, masked, tgt>>

Construct ==
    /\ args.kind = "none"
    /\ \E b \in Backbones, ns \in 0..MaxSizes, rts \in RatioArgs,
       nst \in 0..MaxSteps, nms \in CtorNms :
        DoConstruct(CtorCall(b, SeqOfLen(ns, 30), rts, SeqOfLen(nst, 8), nms))

ConstructPreset ==
    /\ args.kind = "none"
    /\ \E p \in Presets : DoConstruct(Preset(p))

CtorSetNms ==
    /\ ssd.kind = "ssd"
    /\ out = NoOut
    /\ \E c \in NmsConfigs :
         /\ ssd' = SetNmsOn(ssd, c[1], c[2], c[3])
         /\ lastNms' = [force_nms |-> c[3], kind |-> "set_nms", nms_thresh |-> c[1],
                        nms_topk |-> c[2]]
    /\ UNCHANGED <<args, err, ratios_l, x, out, masked, tgt>>

InitCtor ==
    /\ args = NoArgs /\ ssd = NoSSD /\ err = "none" /\ ratios_l = <<>>
    /\ x = NoX /\ out = NoOut /\ masked = <<>>
    /\ lastNms = NoNms /\ tgt = NoTgt

NextCtor == Construct \/ ConstructPreset \/ CtorSetNms

SpecCtor == InitCtor /\ [][NextCtor]_vars

(***************************************************************************)
(* SpecFwd: SSD(...) calls, set_nms and one hybrid_forward call on the     *)
(* object made.  The input of hybrid_forward is what self.features(x) and  *)
(* the predictors return: a list of feature maps and, for each scale that  *)
(* has a predictor, the prediction of every anchor of every cell.          *)
(***************************************************************************)
MaxCells == 2

SeqsUpTo(S, n) == UNION {[1..k -> S] : k \in 1..n}

\* per-anchor predictions: class logits (background first) and box offsets
AnchorPreds ==
    {[logits |-> <<7, 0, 0>>, off |-> <<0, 0, 0, 0>>],
     [logits |-> <<3, 2, 0>>, off |-> <<0, 0, 0, 0>>],
     [logits |-> <<0, 0, 3>>, off |-> <<5, 0, 1, 1>>]}

\* the anchors (scale, row, column, slot) of the scales that have a generator
Positions(self, feat) ==
    {q \in (1..Min2(Len(feat), Len(self.anchor_generators)))
            \X (1..MaxCells) \X (1..MaxCells) \X (1..2) :
        /\ q[2] <= feat[q[1]].h /\ q[3] <= feat[q[1]].w
        /\ q[4] <= self.anchor_generators[q[1]].num_depth}

\* predictor outputs that hold prediction pr[<<i, h, w, a>>] at anchor slot a of
\* cell (h, w) of scale i: channel (a-1)*n + j is entry j of that anchor
BoxTensor(i, ch, f, pr) ==
    [c \in 1..ch |-> [h \in 1..f.h |-> [w \in 1..f.w |->
        pr[<<i, h, w, ((c - 1) \div 4) + 1>>].off[((c - 1) % 4) + 1]]]]

ClsTensor(i, ch, f, pr, n) ==
    [c \in 1..ch |-> [h \in 1..f.h |-> [w \in 1..f.w |->
        pr[<<i, h, w, ((c - 1) \div n) + 1>>].logits[((c - 1) % n) + 1]]]]

PredInput(self, feat, pr, recording) ==
    [box |-> [i \in 1..Min2(Len(feat), Len(self.box_predictors)) |->
                BoxTensor(i, self.box_predictors[i], feat[i], pr)],
     cls |-> [i \in 1..Min2(Len(feat), Len(self.class_predictors)) |->
                ClsTensor(i, self.class_predictors[i], feat[i], pr, self.num_classes)],
     feat |-> feat,
     kind |-> "input",
     recording |-> recording]

FwdFeats ==
    {f \in SeqsUpTo({[h |-> 1, w |-> ww] : ww \in 1..MaxCells}, MaxCells) :
        SumSeq([i \in 1..Len(f) |-> f[i].h * f[i].w]) <= MaxCells}

\* a hybrid_forward call on the object SSD(...) returned (one per behaviour:
\* `x` and `out` keep its input and what it returned or raised)
Forward ==
    /\ ssd.kind = "ssd" /\ out = NoOut
    /\ \E feat \in FwdFeats, recording \in BOOLEAN :
         \E pr \in [Positions(ssd, feat) -> AnchorPreds] :
            LET inp == PredInput(ssd, feat, pr, recording)
                res == HybridForward(ssd, inp)
            IN /\ x' = inp
               /\ out' = res
               /\ masked' = IF res.kind = "infer"
                             THEN MaskedResult(ssd, Aggregate(ssd, inp)) ELSE <<>>
    /\ UNCHANGED <<args, ssd, err, ratios_l, lastNms, tgt>>

NextFwd == Construct \/ ConstructPreset \/ CtorSetNms \/ Forward

SpecFwd == InitCtor /\ [][NextFwd]_vars

(***************************************************************************)
(* SSDTargetGenerator: matching of anchors to ground-truth boxes.          *)
(* Boxes are corner-form <<x_min, y_min, x_max, y_max>>; an IoU is the     *)
(* fraction <<intersection, union>>.                                       *)
(***************************************************************************)
MaxGts == 2
GridMax == 5

IouThresh == 50

TgtAnchors == << <<0, 0, 4, 4>>, <<2, 0, 6, 4>>, <<6, 0, 10, 4>> >>

GtBoxes ==
    {<<2 * p[1], 0, 2 * p[2], 4>> :
        p \in {q \in (0..GridMax) \X (0..GridMax) : q[1] < q[2]}}

\* IoU = intersection / union, 0 when the boxes do not overlap or the union is empty
IoU(b1, b2) ==
    LET i == Inter(b1, b2)
        u == Area(b1) + Area(b2) - i
    IN IF u = 0 \/ i = 0 THEN <<0, 1>> ELSE <<i, u>>

\* the anchor of maximum IoU with ground truth g, lowest index on ties
BestAnchor(anchors, g) ==
    CHOOSE a \in 1..Len(anchors) :
      /\ \A b \in 1..Len(anchors) : ~ FracGt(IoU(anchors[b], g), IoU(anchors[a], g))
      /\ \A b \in 1..(a - 1) : FracGt(IoU(anchors[a], g), IoU(anchors[b], g))

\* the ground truth of maximum IoU with anchor a, lowest index on ties
BestGt(a, gts) ==
    CHOOSE g \in 1..Len(gts) :
      /\ \A h \in 1..Len(gts) : ~ FracGt(IoU(a, gts[h]), IoU(a, gts[g]))
      /\ \A h \in 1..(g - 1) : FracGt(IoU(a, gts[g]), IoU(a, gts[h]))

\* threshold pass: an anchor without a forced match takes its best ground
\* truth when that IoU is at least iou_thresh; 0 is "no match"
ThresholdMatch_All(anchors, gts, forced, a) ==
    LET g == BestGt(anchors[a], gts)
    IN IF ~ FracGt(<<IouThresh, 100>>, IoU(anchors[a], gts[g])) THEN g
       ELSE forced[a]
ThresholdMatch(anchors, gts, forced, a) ==
    IF forced[a] # 0 THEN forced[a]
    ELSE LET g == BestGt(anchors[a], gts)
         IN IF ~ FracGt(<<IouThresh, 100>>, IoU(anchors[a], gts[g])) THEN g ELSE 0

InitTgt ==
    /\ args = NoArgs /\ ssd = NoSSD /\ err = "none" /\ ratios_l = <<>>
    /\ x = NoX /\ out = NoOut /\ masked = <<>> /\ lastNms = NoNms
    /\ \E gts \in SeqsUpTo(GtBoxes, MaxGts) :
         tgt = [forced |-> [a \in 1..Len(TgtAnchors) |-> 0], gts |-> gts,
                kind |-> "run", match |-> <<>>, next |-> 1, phase |-> "force"]

\* bipartite-preference pass, one ground truth at a time: its best anchor is
\* forced to it when their IoU is positive.  Which ground truth an anchor
\* claimed twice ends with is left open: either.
ForceFree ==
    /\ tgt.kind = "run" /\ tgt.phase = "force" /\ tgt.next <= Len(tgt.gts)
    /\ LET g == tgt.next
           a == BestAnchor(TgtAnchors, tgt.gts[g])
       IN /\ tgt.forced[a] = 0 \/ IoU(TgtAnchors[a], tgt.gts[g])[1] = 0
          /\ tgt' = [tgt EXCEPT
                       !.next = g + 1,
                       !.forced = IF IoU(TgtAnchors[a], tgt.gts[g])[1] > 0
                                  THEN [@ EXCEPT ![a] = g] ELSE @]
    /\ UNCHANGED <<args, ssd, err, ratios_l, x, out, masked, lastNms>>

ForceClaimed ==
    /\ tgt.kind = "run" /\ tgt.phase = "force" /\ tgt.next <= Len(tgt.gts)
    /\ LET g == tgt.next
           a == BestAnchor(TgtAnchors, tgt.gts[g])
       IN /\ tgt.forced[a] # 0 /\ IoU(TgtAnchors[a], tgt.gts[g])[1] > 0
          /\ \E keep \in BOOLEAN :
               tgt' = [tgt EXCEPT
                         !.next = g + 1,
                         !.forced = IF keep THEN @ ELSE [@ EXCEPT ![a] = g]]
    /\ UNCHANGED <<args, ssd, err, ratios_l, x, out, masked, lastNms>>

ThresholdPass ==
    /\ tgt.kind = "run" /\ tgt.phase = "force" /\ tgt.next > Len(tgt.gts)
    /\ tgt' = [tgt EXCEPT
                 !.phase = "matched",
                 !.match = [a \in 1..Len(TgtAnchors) |->
                              ThresholdMatch(TgtAnchors, tgt.gts, tgt.forced, a)]]
    /\ UNCHANGED <<args, ssd, err, ratios_l, x, out, masked, lastNms>>

NextTgt == ForceFree \/ ForceClaimed \/ ThresholdPass

SpecTgt == InitTgt /\ [][NextTgt]_vars

(***************************************************************************)
(* Claims about construction (SpecCtor)                                    *)
(***************************************************************************)
Called == args.kind = "call"
IsFlat(a) == a.ratios.isList /\ Len(a.ratios.elems) >= 1 /\ ~ a.ratios.elems[1].isList
IsNested(a) ==
    a.ratios.isList /\ \A i \in 1..Len(a.ratios.elems) : a.ratios.elems[i].isList
FlatAsList(a) == RList([i \in 1..Len(a.ratios.elems) |-> a.ratios.elems[i].items[1]])
RatioValidationErrors == {"AssertionError:98", "IndexError:99", "AssertionError:101"}

\* C1 (as claimed): a flat ratio list is broadcast: with num_layers >= 1 and
\* sizes of the right length the call passes the ratio validation and every
\* layer is given the complete flat list.
C1_FlatRatiosBroadcast ==
    (Called /\ IsFlat(args) /\ NumLayers(args) >= 1
        /\ Len(args.sizes) = NumLayers(args) + 1)
    => /\ err \notin RatioValidationErrors
       /\ Len(ratios_l) = NumLayers(args)
       /\ \A i \in 1..Len(ratios_l) : ratios_l[i] = FlatAsList(args)

Inconsistent(a) ==
    \/ Len(a.sizes) # NumLayers(a) + 1
    \/ (IsNested(a) /\ Len(a.ratios.elems) # NumLayers(a))
    \/ NumLayers(a) = 0

\* C6: a call with an inconsistent configuration (len(sizes) # num_layers+1,
\* or a per-layer ratio list count other than num_layers, or num_layers = 0)
\* ends in an exception and returns no object.
C6_InconsistentAborts ==
    (Called /\ Inconsistent(args)) => (err # "none" /\ ssd = NoSSD)

C6_Witness ==
    /\ Called /\ args.network # "None" /\ IsNested(args)
    /\ Len(args.sizes) = NumLayers(args) + 1 /\ NumLayers(args) > 0
    /\ Len(args.ratios.elems) # NumLayers(args)
    /\ err = "AssertionError:101" /\ ssd = NoSSD

\* C7 (as claimed): an SSD constructed without nms arguments has
\* nms_thresh 0.45, nms_topk -1 and force_nms off.
C7_DefaultNmsThresh ==
    (Called /\ ~ args.nms_given /\ ssd.kind = "ssd" /\ lastNms.kind = "init")
    => (ssd.nms_thresh = 45 /\ ssd.nms_topk = -1 /\ ssd.force_nms = FALSE)

PassesAssertions(a) ==
    /\ Len(a.sizes) = NumLayers(a) + 1
    /\ IsNested(a) /\ Len(a.ratios.elems) = NumLayers(a)
    /\ NumLayers(a) > 0

\* C9 (as claimed): a configuration that passes the assertions is constructed
\* to completion with num_layers generators and predictors, the generator of
\* scale i built from the i-th size pair, ratio list and step.
C9_AllLayersBuilt ==
    (Called /\ PassesAssertions(args))
    => /\ err = "none" /\ ssd.kind = "ssd"
       /\ Len(ssd.anchor_generators) = NumLayers(args)
       /\ Len(ssd.class_predictors) = NumLayers(args)
       /\ Len(ssd.box_predictors) = NumLayers(args)
       /\ \A i \in 1..Len(ssd.anchor_generators) :
            /\ ssd.anchor_generators[i].sizes = <<args.sizes[i], args.sizes[i + 1]>>
            /\ ssd.anchor_generators[i].ratios = args.ratios.elems[i]
            /\ ssd.anchor_generators[i].step = args.steps[i]

\* C10 (as claimed): every preset passes a configuration with
\* len(sizes) = num_layers+1, len(ratios) = num_layers, len(steps) = num_layers.
C10_PresetsValid ==
    (Called /\ args.preset # "")
    => /\ Len(args.sizes) = NumLayers(args) + 1
       /\ Len(args.ratios.elems) = NumLayers(args)
       /\ Len(args.steps) = NumLayers(args)

(***************************************************************************)
(* Claims about hybrid_forward (SpecFwd)                                   *)
(***************************************************************************)
Inferred == x.kind = "input" /\ ~ x.recording
Recorded == x.kind = "input" /\ x.recording
\* every scale of the feature list has its generator and its two predictors
ScalesBuilt ==
    /\ Len(ssd.anchor_generators) >= Len(x.feat)
    /\ Len(ssd.class_predictors) >= Len(x.feat)
    /\ Len(ssd.box_predictors) >= Len(x.feat)
Depth(i) == ssd.anchor_generators[i].num_depth
ScaleCount(i) == x.feat[i].h * x.feat[i].w * Depth(i)
TotalAnchors == SumSeq([i \in 1..Len(x.feat) |-> ScaleCount(i)])
ScaleOffset(i) == SumSeq([j \in 1..(i - 1) |-> ScaleCount(j)])
FlatIndex(i, h, w, a) == ScaleOffset(i) + ((h - 1) * x.feat[i].w + (w - 1)) * Depth(i) + a

\* C5 (as claimed): the aggregation step returns three sequences of the same
\* length, the sum over the scales of H_i*W_i*A_i, and the entry at the flat
\* index of (scale i, row h, column w, slot a), scales in ascending order, is
\* in each of them the one of that scale, cell and slot; the predictors have
\* A_i*(classes+1) and A_i*4 channels.
C5_Aligned ==
    Recorded =>
      /\ out.kind = "train"
      /\ ScalesBuilt
      /\ \A i \in 1..Len(x.feat) :
           /\ ssd.class_predictors[i] = Depth(i) * ssd.num_classes
           /\ ssd.box_predictors[i] = Depth(i) * 4
      /\ Len(out.anchors) = TotalAnchors
      /\ Len(out.cls_preds) = TotalAnchors
      /\ Len(out.box_preds) = TotalAnchors
      /\ \A i \in 1..Len(x.feat) : \A h \in 1..x.feat[i].h : \A w \in 1..x.feat[i].w :
           \A a \in 1..Depth(i) :
             LET k == FlatIndex(i, h, w, a)
             IN /\ out.cls_preds[k] =
                     [j \in 1..ssd.num_classes |->
                        x.cls[i][(a - 1) * ssd.num_classes + j][h][w]]
                /\ out.box_preds[k] = [j \in 1..4 |-> x.box[i][(a - 1) * 4 + j][h][w]]
                /\ out.anchors[k] = AnchorAt(ssd.anchor_generators[i], h - 1, w - 1, a)

OutRow(k) == [bbox |-> out.bboxes[k], id |-> out.ids[k], score |-> out.scores[k]]
OutRows == [k \in 1..Len(out.ids) |-> OutRow(k)]
\* of a class distribution p (background first)
BackgroundWins(p) == \A j \in 2..Len(p) : FracGt(p[1], p[j])
\* the class distributions of the aggregated anchors
Probs == LET cp == Aggregate(ssd, x).cls_preds IN [k \in 1..Len(cp) |-> Softmax(cp[k])]

\* C2 (as claimed): an inference call returns a detection output in which the
\* slot of every anchor whose background probability is the largest is all
\* -1 (so the whole output is all -1 when background wins at every anchor),
\* for every NMS setting.
C2_BackgroundWinsInvalid ==
    Inferred =>
      /\ out.kind = "infer"
      /\ LET p == Probs
         IN \A k \in 1..Len(p) : BackgroundWins(p[k]) => OutRow(k) = InvalidRow

\* C3 (as claimed): an inference call returns one slot per aggregated anchor,
\* and every slot is either all -1 or has a class id in 0..classes-1 and a
\* score above 0.01, whatever the NMS settings.
C3_SlotsValidOrInvalid ==
    Inferred =>
      /\ out.kind = "infer"
      /\ ScalesBuilt
      /\ Len(out.ids) = TotalAnchors
      /\ Len(out.scores) = TotalAnchors
      /\ Len(out.bboxes) = TotalAnchors
      /\ \A k \in 1..TotalAnchors :
           \/ OutRow(k) = InvalidRow
           \/ /\ out.ids[k] \in 0..(ssd.num_classes - 2)
              /\ FracGt(out.scores[k], <<1, 100>>)

C4_Decides ==
    Inferred =>
      /\ out.kind = "infer"
      /\ (lastNms.nms_thresh > 0 /\ lastNms.nms_thresh < 100)
           => OutRows = BoxNms(masked, lastNms.nms_thresh, lastNms.nms_topk,
                               lastNms.force_nms)
      /\ ~ (lastNms.nms_thresh > 0 /\ lastNms.nms_thresh < 100) => OutRows = masked

C4_Frame ==
    (ssd.kind = "ssd" /\ lastNms' # lastNms) =>
      /\ ssd' = [ssd EXCEPT !.nms_thresh = lastNms'.nms_thresh,
                            !.nms_topk = lastNms'.nms_topk,
                            !.force_nms = lastNms'.force_nms]
      /\ UNCHANGED <<x, out, masked>>

\* C4 (as claimed): after any construction and set_nms calls, an inference
\* call returns the suppression of the confidence-masked rows under the most
\* recently configured (thresh, topk, force) when that threshold is strictly
\* between 0 and 1, and the confidence-masked rows themselves otherwise (0 and
\* 1 included); a set_nms call changes nothing of the object but nms_thresh,
\* nms_topk and force_nms.
C4_LastNmsDecides == [] C4_Decides /\ [][C4_Frame]_vars

(***************************************************************************)
(* Claims about target generation (SpecTgt)                                *)
(***************************************************************************)
Matched == tgt.kind = "run" /\ tgt.phase = "matched"
EachGtOverlaps ==
    \A g \in 1..Len(tgt.gts) : \E a \in 1..Len(TgtAnchors) :
        IoU(TgtAnchors[a], tgt.gts[g])[1] > 0
EveryGtMatched ==
    \A g \in 1..Len(tgt.gts) : \E a \in 1..Len(TgtAnchors) : tgt.match[a] = g
DistinctBestAnchors ==
    \A g \in 1..Len(tgt.gts) : \A h \in 1..Len(tgt.gts) :
        g # h => BestAnchor(TgtAnchors, tgt.gts[g]) # BestAnchor(TgtAnchors, tgt.gts[h])

\* C8 (as claimed): when every ground truth has an anchor of positive IoU,
\* after the two passes every ground truth is the match of some anchor, also
\* when several ground truths have the same maximum-IoU anchor.
C8_Coverage == (Matched /\ EachGtOverlaps) => EveryGtMatched

\* C8 (amended): when every ground truth has an anchor of positive IoU and no
\* two ground truths have the same maximum-IoU anchor (lowest index on ties),
\* after the two passes every ground truth is the match of some anchor.
C8_CoverageDistinct == (Matched /\ EachGtOverlaps /\ DistinctBestAnchors) => EveryGtMatched

C8_Witness ==
    /\ Matched /\ Len(tgt.gts) = 2 /\ EachGtOverlaps /\ DistinctBestAnchors
    /\ EveryGtMatched
    /\ \E a \in 1..Len(TgtAnchors) :
         /\ tgt.forced[a] # 0
         /\ FracGt(<<IouThresh, 100>>, IoU(TgtAnchors[a], tgt.gts[tgt.forced[a]]))

====
